---- MODULE Spec2Model ----
(***************************************************************************)
(* TinyAda syntax front end: the Scanner (src/Scanner.py) and the          *)
(* recursive-descent Parser (src/Parser.py).                               *)
(*                                                                         *)
(* The Scanner is modelled by operators that compute, from the source text *)
(* and the Chario cursor, the token the code returns and the cursor it     *)
(* leaves.  The Parser is modelled as a machine over an explicit call      *)
(* stack: one action per method, one step per basic block.                 *)
(*                                                                         *)
(* Token.py, Chario.py and consts.py are not part of src/: the character   *)
(* source and the token tables are modelled from the specification.        *)
(***************************************************************************)
EXTENDS Integers, Sequences, FiniteSets, TLC

VARIABLES
    source,     \* the input text, a sequence of one-character strings
    cursor,     \* Chario: index of the next character to read (1-based)
    token,      \* Parser.token: the lookahead
    tokBegin,   \* index in source of the first character of the lookahead
    stack,      \* the Python call stack of Parser methods, innermost last
    exc,        \* "none", or "RuntimeError" while an exception unwinds
    diag        \* what Chario.PrintErrorMessage has received, in order

vars == <<source, cursor, token, tokBegin, stack, exc, diag>>

-----------------------------------------------------------------------------
(* Bounds of the model *)

\* longest generated text of the scanner specification
MaxLen == 4

\* most words in a generated program of the parser specification
MaxWords == 3

\* most statements in a generated well-formed subprogram body
MaxStmts == 2

MaxOps == 3

MaxTrail == 2

-----------------------------------------------------------------------------
(* Character classes (Python str.isalpha / str.isdigit on one character) *)

Letters ==
    {"a","b","c","d","e","f","g","h","i","j","k","l","m","n","o","p","q",
     "r","s","t","u","v","w","x","y","z",
     "A","B","C","D","E","F","G","H","I","J","K","L","M","N","O","P","Q",
     "R","S","T","U","V","W","X","Y","Z"}

Digits == {"0","1","2","3","4","5","6","7","8","9"}

isalpha(c) == c \in Letters

isdigit(c) == c \in Digits

-----------------------------------------------------------------------------
(* Token and its category tables *)

\* Python None as the value of a token that carries no lexeme; a lexeme is
\* never the empty string
None == ""

Token(code, value) == [code |-> code, value |-> value]

\* the lookahead before any token has been scanned
NoToken == Token("<none>", None)

NEWLINE == "newline"

reservedWords ==
    {"is","begin","end","if","while","loop","procedure","type","range",
     "array","of","constant","in","out","not","and","or","mod","null",
     "exit","when","then","else","elsif"}

basicDeclarationHandles == {"id", "type", "procedure"}

relationalOperator == {"=", "/=", "<", "<=", ">", ">="}

addingOperator == {"+", "-"}

multiplyingOperator == {"*", "/", "mod"}

-----------------------------------------------------------------------------
(* Chario *)

PeekNextChar(s, p) == IF p > Len(s) THEN "EOF" ELSE s[p]

-----------------------------------------------------------------------------
(* Scanner.  Every operator returns                                         *)
(*   [token, cursor, begin, err, bad]:                                      *)
(* the token returned, the cursor left, where the token began, whether a    *)
(* RuntimeError was raised instead, and the character reported with it.     *)

ScanResult(t, c, b) == [token |-> t, cursor |-> c, begin |-> b, err |-> FALSE, bad |-> ""]

ScanError(c, b, ch) == [token |-> NoToken, cursor |-> c, begin |-> b, err |-> TRUE, bad |-> ch]

ignoredCharacters == {" ", "\n", "\r", "\t", "\\"}

delimiters ==
    {" ", "\n", "\r", "\t", "\\", ",", ":", "<", ">", "=", ";", "+", "-",
     "*", "/", "(", ")", "EOF"}

singleCharOperators == {"+", "-", ";", "(", ")", ","}

possiblyDoubleCharOperators == {"/", ":", ">", "<", "*"}

doubleCharOperators == {"/=", ":=", "<=", ">=", "**"}

\* the while loop of IntegerToken: the cursor after the run of digits at p
RECURSIVE IntegerEnd(_, _)
IntegerEnd(s, p) ==
    IF isdigit(PeekNextChar(s, p)) THEN IntegerEnd(s, p + 1) ELSE p

\* the text s[p..q-1] as one string
RECURSIVE Text(_, _, _)
Text(s, p, q) == IF p >= q THEN "" ELSE s[p] \o Text(s, p + 1, q)

\* a faulty IntegerToken: it reads the first digit and never loops
IntegerTokenOneDigit(s, p) ==
    ScanResult(Token("int", Text(s, p, p + 1)), p + 1, p)

IntegerToken(s, p) ==
    LET q == IntegerEnd(s, p)
    IN  ScanResult(Token("int", Text(s, p, q)), q, p)

\* the while loop of AlphabeticToken: the cursor at the first delimiter
RECURSIVE AlphabeticEnd(_, _)
AlphabeticEnd(s, p) ==
    IF PeekNextChar(s, p) \notin delimiters THEN AlphabeticEnd(s, p + 1) ELSE p

\* a faulty AlphabeticToken: it stops as soon as the text read so far is a
\* reserved word
RECURSIVE EagerEnd(_, _, _)
EagerEnd(s, p, q) ==
    IF PeekNextChar(s, q) \in delimiters \/ Text(s, p, q) \in reservedWords
    THEN q
    ELSE EagerEnd(s, p, q + 1)

AlphabeticTokenEager(s, p) ==
    LET q      == EagerEnd(s, p, p + 1)
        result == Text(s, p, q)
    IN  IF result \in reservedWords
        THEN ScanResult(Token(result, None), q, p)
        ELSE ScanResult(Token("id", result), q, p)

AlphabeticToken(s, p) ==
    LET q      == AlphabeticEnd(s, p)
        result == Text(s, p, q)
    IN  IF result \in reservedWords
        THEN ScanResult(Token(result, None), q, p)
        ELSE ScanResult(Token("id", result), q, p)

\* a faulty OperatorToken: it never looks at the character after a possibly
\* double operator
OperatorTokenNoPeek(s, p) ==
    LET firstChar == s[p]
        next      == PeekNextChar(s, p + 1)
    IN  IF firstChar = "." /\ next = "."
        THEN ScanResult(Token("..", None), p + 2, p)
        ELSE IF firstChar \in singleCharOperators \cup possiblyDoubleCharOperators
        THEN ScanResult(Token(firstChar, None), p + 1, p)
        ELSE ScanError(p + 1, p, firstChar)

OperatorToken(s, p) ==
    LET firstChar == s[p]
        next      == PeekNextChar(s, p + 1)
    IN  IF firstChar = "." /\ next = "."
        THEN ScanResult(Token("..", None), p + 2, p)
        ELSE IF firstChar \in singleCharOperators
        THEN ScanResult(Token(firstChar, None), p + 1, p)
        ELSE IF firstChar \in possiblyDoubleCharOperators
        THEN IF (firstChar \o next) \in doubleCharOperators
             THEN ScanResult(Token(firstChar \o next, None), p + 2, p)
             ELSE ScanResult(Token(firstChar, None), p + 1, p)
        ELSE ScanError(p + 1, p, firstChar)

\* the skipping loop of GetNextToken: the cursor at the first character that
\* is not ignored, or at end of input
RECURSIVE SkipIgnored(_, _)
SkipIgnored(s, p) ==
    IF PeekNextChar(s, p) # "EOF" /\ PeekNextChar(s, p) \in ignoredCharacters
    THEN SkipIgnored(s, p + 1)
    ELSE p

\* a scanner that hands newlines to the parser: it skips the other ignored
\* characters only and returns a newline token for a newline character
RECURSIVE SkipBlanks(_, _)
SkipBlanks(s, p) ==
    IF PeekNextChar(s, p) \in ignoredCharacters \ {"\n"}
    THEN SkipBlanks(s, p + 1)
    ELSE p

GetNextTokenNewlines(s, p) ==
    LET q        == SkipBlanks(s, p)
        nextChar == PeekNextChar(s, q)
    IN  IF nextChar = "EOF" THEN ScanResult(Token("EOF", None), q, q)
        ELSE IF nextChar = "\n" THEN ScanResult(Token(NEWLINE, None), q + 1, q)
        ELSE IF isalpha(nextChar) THEN AlphabeticToken(s, q)
        ELSE IF isdigit(nextChar) THEN IntegerToken(s, q)
        ELSE OperatorToken(s, q)

\* a faulty GetNextToken: at end of input it consumes the sentinel
GetNextTokenPastEnd(s, p) ==
    LET q        == SkipIgnored(s, p)
        nextChar == PeekNextChar(s, q)
    IN  IF nextChar = "EOF" THEN ScanResult(Token("EOF", None), q + 1, q)
        ELSE IF isalpha(nextChar) THEN AlphabeticToken(s, q)
        ELSE IF isdigit(nextChar) THEN IntegerToken(s, q)
        ELSE OperatorToken(s, q)

GetNextToken(s, p) ==
    LET q        == SkipIgnored(s, p)
        nextChar == PeekNextChar(s, q)
    IN  IF nextChar = "EOF" THEN ScanResult(Token("EOF", None), q, q)
        ELSE IF isalpha(nextChar) THEN AlphabeticToken(s, q)
        ELSE IF isdigit(nextChar) THEN IntegerToken(s, q)
        ELSE OperatorToken(s, q)

\* the diagnostic OperatorToken sends before it raises
LexicalDiag(ch) == [kind |-> "lexical", expected |-> "", found |-> ch]

\* self.token = self.scanner.GetNextToken(): on success the lookahead is
\* replaced; when the scanner raises, the assignment does not happen, the
\* diagnostic has been sent and the offending character has been consumed
AssignNextToken ==
    LET r == GetNextToken(source, cursor)
    IN  /\ cursor' = r.cursor
        /\ IF r.err
           THEN /\ token' = token
                /\ tokBegin' = tokBegin
                /\ exc' = "RuntimeError"
                /\ diag' = Append(diag, LexicalDiag(r.bad))
           ELSE /\ token' = r.token
                /\ tokBegin' = r.begin
                /\ exc' = exc
                /\ diag' = diag

-----------------------------------------------------------------------------
(* The scanner on its own: any text over a small alphabet, tokens requested *)
(* one after another until the scanner raises.                              *)

OperatorChars == {"/", ":", ">", "<", "*", "=", " ", "x"}

WordChars == {"i", "s", "x", "1", " ", "\n", ";", "."}

TextsOver(S, n) == UNION {[1..k -> S] : k \in 0..n}

ScanExamples ==
    { <<"b","e","g","i","n","x"," ">>,
      <<"b","e","g","i","n"," ">>,
      <<":","=">>, <<":"," ">>, <<"*","*">>,
      <<"x"," ","\\","\t","\r","\n","y">>,
      <<"1","2","3","4","x">>, <<"1","2","3","4","5">>,
      <<"l","o",".",".","h","i">>, <<"l","o"," ",".","."," ","h","i">>,
      <<"x"," ","="," ","1">>, <<"x"," "," ","\t"," ","\n">> }

ScanInputs == TextsOver(OperatorChars, MaxLen) \cup TextsOver(WordChars, MaxLen) \cup ScanExamples

InitScan ==
    /\ source \in ScanInputs
    /\ cursor = 1
    /\ token = NoToken
    /\ tokBegin = 0
    /\ stack = <<>>
    /\ exc = "none"
    /\ diag = <<>>

ScanToken ==
    /\ exc = "none"
    /\ AssignNextToken
    /\ UNCHANGED <<source, stack>>

NextScan == ScanToken

ScanSpec == InitScan /\ [][NextScan]_vars

-----------------------------------------------------------------------------
(* The Parser: call stack, calls, returns, exceptions                       *)

\* the diagnostic accept and the dispatching rules hand to fatalError
SyntaxDiag(expected, found) == [kind |-> "syntax", expected |-> expected, found |-> found]

NoArg == [kind |-> "", expected |-> "", found |-> ""]

Frame(f, a) == [fn |-> f, pc |-> 0, arg |-> a]

Top == stack[Len(stack)]

SetPc(p) == [stack EXCEPT ![Len(stack)].pc = p]

Pop == SubSeq(stack, 1, Len(stack) - 1)

Running(f) == stack # <<>> /\ exc = "none" /\ Top.fn = f

Keep == UNCHANGED <<source, cursor, token, tokBegin, exc, diag>>

\* self.f(): the caller resumes at ret when f returns
Call(f, ret) == stack' = Append(SetPc(ret), Frame(f, NoArg)) /\ Keep

\* self.accept(expected, ...): line 71 builds the message from the lookahead
\* at entry
CallAccept(expected, ret) ==
    /\ stack' = Append(SetPc(ret), Frame("accept", SyntaxDiag(expected, token.code)))
    /\ Keep

\* self.fatalError(error_message)
CallFatalError(msg, ret) == stack' = Append(SetPc(ret), Frame("fatalError", msg)) /\ Keep

Goto(p) == stack' = SetPc(p) /\ Keep

Return == stack' = Pop /\ Keep

\* self.token = self.scanner.GetNextToken(), then on to p; when the scanner
\* raises, the frame stays where it is and the exception unwinds from it
ScanThen(p) ==
    /\ AssignNextToken
    /\ stack' = IF GetNextToken(source, cursor).err THEN stack ELSE SetPc(p)
    /\ UNCHANGED source

\* self.token = self.scanner.GetNextToken() as the last statement of a method
ScanThenReturn ==
    /\ AssignNextToken
    /\ stack' = IF GetNextToken(source, cursor).err THEN stack ELSE Pop
    /\ UNCHANGED source

\* the categories after which accept skips newlines
line_terminating_tokens == {"is", "loop", ";"}

\* the frames whose current statement lies inside a try block
Catches(fr) ==
    \/ fr.fn \in {"subprogramBody", "declarativePart", "statement"}
    \/ fr.fn = "loopStatement" /\ fr.pc \in {1, 2, 4, 5, 6}

\* an exception leaves a method that does not catch it
Propagate ==
    /\ stack # <<>>
    /\ exc = "RuntimeError"
    /\ ~Catches(Top)
    /\ stack' = Pop
    /\ UNCHANGED <<source, cursor, token, tokBegin, exc, diag>>

\* an except clause: the exception is dropped and the method goes on at p
Handle(p) ==
    /\ exc' = "none"
    /\ stack' = SetPc(p)
    /\ UNCHANGED <<source, cursor, token, tokBegin, diag>>

-----------------------------------------------------------------------------
(* The Parser: one action per method                                        *)

\* a parse() that runs the disabled line 35: it accepts end-of-input after
\* the body
parseChecksEOF ==
    /\ Running("parse")
    /\ CASE Top.pc = 0 -> Call("subprogramBody", 1)
         [] Top.pc = 1 -> CallAccept("EOF", 2)
         [] OTHER      -> Return

parse ==
    /\ Running("parse")
    /\ CASE Top.pc = 0 -> Call("subprogramBody", 1)        \* line 33
         [] OTHER      -> Return

ignore_newlines ==
    /\ Running("ignore_newlines")
    /\ IF token.code = NEWLINE                              \* line 42
       THEN ScanThen(0)                                     \* line 43
       ELSE Return

\* the message discard_tokens builds is a local string, printed at line 59 and
\* read by nobody: it is not part of the state
discard_tokens ==
    /\ Running("discard_tokens")
    /\ CASE Top.pc = 0 -> ScanThen(1)                       \* line 50
         [] Top.pc = 1 ->
              IF token.code # NEWLINE                       \* line 51
              THEN ScanThen(1)                              \* line 53
              ELSE Call("ignore_newlines", 2)               \* line 57
         [] OTHER      -> Return                            \* line 59

accept ==
    /\ Running("accept")
    /\ LET expected == Top.arg.expected
       IN  CASE Top.pc = 0 ->
                  IF token.code = NEWLINE /\ expected \in line_terminating_tokens
                  THEN CallFatalError(Top.arg, 1)           \* line 80
                  ELSE Call("ignore_newlines", 2)           \* line 83
             [] Top.pc = 1 -> Call("ignore_newlines", 2)    \* line 83
             [] Top.pc = 2 ->
                  IF token.code # expected                  \* line 85
                  THEN CallFatalError(Top.arg, 3)           \* line 88
                  ELSE IF expected \in line_terminating_tokens
                       THEN ScanThen(4)                     \* line 90
                       ELSE ScanThenReturn
             [] Top.pc = 3 ->
                  IF expected \in line_terminating_tokens
                  THEN ScanThen(4)                          \* line 90
                  ELSE ScanThenReturn
             [] Top.pc = 4 -> Call("ignore_newlines", 5)    \* line 92
             [] OTHER      -> Return

fatalError ==
    /\ Running("fatalError")
    /\ CASE Top.pc = 0 ->                                   \* line 103
              /\ diag' = Append(diag, Top.arg)
              /\ stack' = SetPc(1)
              /\ UNCHANGED <<source, cursor, token, tokBegin, exc>>
         [] Top.pc = 1 -> Call("discard_tokens", 2)         \* line 104
         [] OTHER      ->                                   \* line 105
              /\ exc' = "RuntimeError"
              /\ UNCHANGED <<source, cursor, token, tokBegin, stack, diag>>

subprogramBody ==
    /\ stack # <<>>
    /\ Top.fn = "subprogramBody"
    /\ IF exc = "RuntimeError"
       THEN CASE Top.pc \in {1, 2} -> Handle(2)             \* line 117
              [] Top.pc = 3        -> Handle(3)             \* line 122
              [] Top.pc = 4        -> Handle(4)             \* line 128
              [] Top.pc = 5        -> Handle(5)             \* line 133
              [] OTHER             -> Handle(8)             \* line 143
       ELSE CASE Top.pc = 0 -> Call("subprogramSpecification", 1)   \* line 114
              [] Top.pc = 1 -> CallAccept("is", 2)                  \* line 115
              [] Top.pc = 2 -> Call("declarativePart", 3)           \* line 121
              [] Top.pc = 3 -> CallAccept("begin", 4)               \* line 126
              [] Top.pc = 4 -> Call("sequenceOfStatements", 5)      \* line 132
              [] Top.pc = 5 -> CallAccept("end", 6)                 \* line 137
              [] Top.pc = 6 ->
                   IF token.code = "id"                             \* line 139
                   THEN ScanThen(7)                                 \* line 140
                   ELSE CallAccept(";", 8)                          \* line 141
              [] Top.pc = 7 -> CallAccept(";", 8)                   \* line 141
              [] OTHER      -> Return

declarativePart ==
    /\ stack # <<>>
    /\ Top.fn = "declarativePart"
    /\ IF exc = "RuntimeError"
       THEN Handle(0)                                       \* line 151
       ELSE IF token.code \in basicDeclarationHandles       \* line 148
            THEN Call("basicDeclaration", 0)                \* line 150
            ELSE Return

basicDeclaration ==
    /\ Running("basicDeclaration")
    /\ CASE Top.pc = 0 ->
              IF token.code = "id"
              THEN Call("numberOrObjectDeclaration", 1)     \* line 157
              ELSE IF token.code = "type"
              THEN Call("typeDeclaration", 1)               \* line 159
              ELSE IF token.code = "procedure"
              THEN Call("subprogramBody", 1)                \* line 161
              ELSE Return
         [] OTHER -> Return

numberOrObjectDeclaration ==
    /\ Running("numberOrObjectDeclaration")
    /\ CASE Top.pc = 0 -> Call("identifierList", 1)         \* line 165
         [] Top.pc = 1 -> CallAccept(":", 2)                \* line 166
         [] Top.pc = 2 ->
              IF token.code = "constant"                    \* line 168
              THEN Call("numberDeclaration", 3)
              ELSE Call("objectDeclaration", 3)
         [] OTHER -> Return

objectDeclaration ==
    /\ Running("objectDeclaration")
    /\ CASE Top.pc = 0 -> Call("typeDefinition", 1)         \* line 175
         [] Top.pc = 1 -> CallAccept(";", 2)                \* line 176
         [] OTHER -> Return

numberDeclaration ==
    /\ Running("numberDeclaration")
    /\ CASE Top.pc = 0 -> CallAccept("constant", 1)         \* line 181
         [] Top.pc = 1 -> CallAccept(":=", 2)               \* line 183
         [] Top.pc = 2 -> Call("expression", 3)             \* line 185
         [] Top.pc = 3 -> CallAccept(";", 4)                \* line 186
         [] OTHER -> Return

identifierList ==
    /\ Running("identifierList")
    /\ CASE Top.pc = 0 -> CallAccept("id", 1)               \* line 191
         [] Top.pc = 1 ->
              IF token.code = ","                           \* line 193
              THEN ScanThen(2)                              \* line 194
              ELSE Return
         [] OTHER -> CallAccept("id", 1)                    \* line 195

typeDeclaration ==
    /\ Running("typeDeclaration")
    /\ CASE Top.pc = 0 -> CallAccept("type", 1)             \* line 200
         [] Top.pc = 1 -> CallAccept("id", 2)               \* line 202
         [] Top.pc = 2 -> CallAccept("is", 3)               \* line 204
         [] Top.pc = 3 -> Call("typeDefinition", 4)         \* line 206
         [] Top.pc = 4 -> CallAccept(";", 5)                \* line 207
         [] OTHER -> Return

typeDefinition ==
    /\ Running("typeDefinition")
    /\ CASE Top.pc = 0 ->
              IF token.code = "("
              THEN Call("enumerationTypeDefinition", 1)     \* line 213
              ELSE IF token.code = "array"
              THEN Call("arrayTypeDefinition", 1)           \* line 215
              ELSE IF token.code = "range"
              THEN Call("range", 1)                         \* line 217
              ELSE IF token.code = "id"
              THEN Call("name", 1)                          \* line 219
              ELSE CallFatalError(SyntaxDiag("typeDefinition", token.code), 1)  \* line 221
         [] OTHER -> Return

range ==
    /\ Running("range")
    /\ CASE Top.pc = 0 -> CallAccept("range", 1)            \* line 226
         [] Top.pc = 1 -> Call("simpleExpression", 2)       \* line 228
         [] Top.pc = 2 -> CallAccept("..", 3)               \* line 229
         [] Top.pc = 3 -> Call("simpleExpression", 4)       \* line 231
         [] OTHER -> Return

index ==
    /\ Running("index")
    /\ CASE Top.pc = 0 ->
              IF token.code = "range"
              THEN Call("range", 1)                         \* line 236
              ELSE IF token.code = "id"
              THEN Call("name", 1)                          \* line 238
              ELSE CallFatalError(SyntaxDiag("index", ""), 1)   \* line 240
         [] OTHER -> Return

enumerationTypeDefinition ==
    /\ Running("enumerationTypeDefinition")
    /\ CASE Top.pc = 0 -> CallAccept("(", 1)                \* line 244
         [] Top.pc = 1 -> Call("identifierList", 2)         \* line 246
         [] Top.pc = 2 -> CallAccept(")", 3)                \* line 247
         [] OTHER -> Return

arrayTypeDefinition ==
    /\ Running("arrayTypeDefinition")
    /\ CASE Top.pc = 0 -> CallAccept("array", 1)            \* line 252
         [] Top.pc = 1 -> CallAccept("(", 2)                \* line 254
         [] Top.pc = 2 -> Call("index", 3)                  \* lines 256, 259
         [] Top.pc = 3 ->
              IF token.code = ","                           \* line 257
              THEN ScanThen(2)                              \* line 258
              ELSE CallAccept(")", 4)                       \* line 260
         [] Top.pc = 4 -> CallAccept("of", 5)               \* line 262
         [] Top.pc = 5 -> Call("name", 6)                   \* line 264
         [] OTHER -> Return

subprogramSpecification ==
    /\ Running("subprogramSpecification")
    /\ CASE Top.pc = 0 -> CallAccept("procedure", 1)        \* line 268
         [] Top.pc = 1 -> CallAccept("id", 2)               \* line 270
         [] Top.pc = 2 ->
              IF token.code = "("                           \* line 272
              THEN Call("formalPart", 3)                    \* line 273
              ELSE Return
         [] OTHER -> Return

formalPart ==
    /\ Running("formalPart")
    /\ CASE Top.pc = 0 -> CallAccept("(", 1)                \* line 277
         [] Top.pc = 1 -> Call("parameterSpecification", 2) \* lines 279, 282
         [] Top.pc = 2 ->
              IF token.code = ";"                           \* line 280
              THEN ScanThen(1)                              \* line 281
              ELSE CallAccept(")", 3)                       \* line 283
         [] OTHER -> Return

parameterSpecification ==
    /\ Running("parameterSpecification")
    /\ CASE Top.pc = 0 -> Call("identifierList", 1)         \* line 288
         [] Top.pc = 1 -> CallAccept(":", 2)                \* line 289
         [] Top.pc = 2 -> Call("mode", 3)                   \* line 291
         [] Top.pc = 3 -> Call("name", 4)                   \* line 292
         [] OTHER -> Return

mode ==
    /\ Running("mode")
    /\ CASE Top.pc = 0 ->
              IF token.code = "in"                          \* line 296
              THEN ScanThen(1)                              \* line 297
              ELSE Goto(1)
         [] OTHER ->
              IF token.code = "out"                         \* line 298
              THEN ScanThenReturn                           \* line 299
              ELSE Return

\* a faulty sequenceOfStatements: `end` does not stop the loop
sequenceOfStatementsNoEnd ==
    /\ Running("sequenceOfStatements")
    /\ CASE Top.pc = 0 -> Call("statement", 1)
         [] OTHER ->
              IF token.code \notin {"elsif", "else"}
              THEN Call("statement", 1)
              ELSE Return

sequenceOfStatements ==
    /\ Running("sequenceOfStatements")
    /\ CASE Top.pc = 0 -> Call("statement", 1)              \* line 303
         [] OTHER ->
              IF token.code \notin {"end", "elsif", "else"} \* line 304
              THEN Call("statement", 1)                     \* line 305
              ELSE Return

statement ==
    /\ stack # <<>>
    /\ Top.fn = "statement"
    /\ IF exc = "RuntimeError"
       THEN Handle(1)                                       \* line 314
       ELSE CASE Top.pc = 0 ->
                   IF token.code \in {"if", "while", "loop"}    \* line 310
                   THEN Call("compoundStatement", 1)        \* line 311
                   ELSE Call("simpleStatement", 1)          \* line 313
              [] OTHER -> Return

simpleStatement ==
    /\ Running("simpleStatement")
    /\ CASE Top.pc = 0 ->
              IF token.code = "null"
              THEN Call("nullStatement", 1)                 \* line 320
              ELSE IF token.code = "exit"
              THEN Call("exitStatement", 1)                 \* line 322
              ELSE Call("nameStatement", 1)                 \* line 324
         [] OTHER -> Return

nameStatement ==
    /\ Running("nameStatement")
    /\ CASE Top.pc = 0 -> Call("name", 1)                   \* line 330
         [] Top.pc = 1 ->
              IF token.code = ":="                          \* line 331
              THEN Call("assignmentStatement", 2)
              ELSE Call("procedureCallStatement", 2)
         [] OTHER -> Return

compoundStatement ==
    /\ Running("compoundStatement")
    /\ CASE Top.pc = 0 ->
              IF token.code = "if"                          \* line 338
              THEN Call("ifStatement", 1)
              ELSE Call("loopStatement", 1)
         [] OTHER -> Return

nullStatement ==
    /\ Running("nullStatement")
    /\ CASE Top.pc = 0 -> CallAccept("null", 1)             \* line 345
         [] Top.pc = 1 -> CallAccept(";", 2)                \* line 347
         [] OTHER -> Return

assignmentStatement ==
    /\ Running("assignmentStatement")
    /\ CASE Top.pc = 0 -> CallAccept(":=", 1)               \* line 352
         [] Top.pc = 1 -> Call("expression", 2)             \* line 354
         [] Top.pc = 2 -> CallAccept(";", 3)                \* line 355
         [] OTHER -> Return

ifStatement ==
    /\ Running("ifStatement")
    /\ CASE Top.pc = 0 -> CallAccept("if", 1)               \* line 360
         [] Top.pc = 1 -> Call("condition", 2)              \* line 362
         [] Top.pc = 2 -> CallAccept("then", 3)             \* line 363
         [] Top.pc = 3 -> Call("sequenceOfStatements", 4)   \* line 365
         [] Top.pc = 4 ->
              IF token.code = "elsif"                       \* line 366
              THEN ScanThen(5)                              \* line 367
              ELSE IF token.code = "else"                   \* line 372
              THEN ScanThen(8)                              \* line 373
              ELSE CallAccept("end", 10)                    \* line 375
         [] Top.pc = 5 -> Call("condition", 6)              \* line 368
         [] Top.pc = 6 -> CallAccept("then", 7)             \* line 369
         [] Top.pc = 7 -> Call("sequenceOfStatements", 4)   \* line 371
         [] Top.pc = 8 -> Call("sequenceOfStatements", 9)   \* line 374
         [] Top.pc = 9 -> CallAccept("end", 10)             \* line 375
         [] Top.pc = 10 -> CallAccept("if", 11)             \* line 377
         [] Top.pc = 11 -> CallAccept(";", 12)              \* line 379
         [] OTHER -> Return

loopStatement ==
    /\ stack # <<>>
    /\ Top.fn = "loopStatement"
    /\ exc = "RuntimeError" => Catches(Top)
    /\ IF exc = "RuntimeError"
       THEN CASE Top.pc \in {1, 2} -> Handle(2)             \* line 389
              [] OTHER             -> Handle(6)             \* line 401
       ELSE CASE Top.pc = 0 ->
                   IF token.code = "while"                  \* line 385
                   THEN Call("iterationScheme", 1)          \* line 386
                   ELSE CallAccept("loop", 2)               \* line 387
              [] Top.pc = 1 -> CallAccept("loop", 2)        \* line 387
              [] Top.pc = 2 -> Call("sequenceOfStatements", 3)  \* line 392
              [] Top.pc = 3 -> CallAccept("end", 4)         \* line 395
              [] Top.pc = 4 -> CallAccept("loop", 5)        \* line 397
              [] Top.pc = 5 -> CallAccept(";", 6)           \* line 399
              [] OTHER -> Return

iterationScheme ==
    /\ Running("iterationScheme")
    /\ CASE Top.pc = 0 -> CallAccept("while", 1)            \* line 406
         [] Top.pc = 1 -> Call("condition", 2)              \* line 408
         [] OTHER -> Return

exitStatement ==
    /\ Running("exitStatement")
    /\ CASE Top.pc = 0 -> CallAccept("exit", 1)             \* line 412
         [] Top.pc = 1 ->
              IF token.code = "when"                        \* line 414
              THEN ScanThen(2)                              \* line 415
              ELSE CallAccept(";", 4)                       \* line 417
         [] Top.pc = 2 -> Call("condition", 3)              \* line 416
         [] Top.pc = 3 -> CallAccept(";", 4)                \* line 417
         [] OTHER -> Return

procedureCallStatement ==
    /\ Running("procedureCallStatement")
    /\ CASE Top.pc = 0 ->
              IF token.code = "("                           \* line 422
              THEN Call("actualParameterPart", 1)           \* line 423
              ELSE CallAccept(";", 2)                       \* line 424
         [] Top.pc = 1 -> CallAccept(";", 2)                \* line 424
         [] OTHER -> Return

actualParameterPart ==
    /\ Running("actualParameterPart")
    /\ CASE Top.pc = 0 -> CallAccept("(", 1)                \* line 429
         [] Top.pc = 1 -> Call("expression", 2)             \* lines 431, 434
         [] Top.pc = 2 ->
              IF token.code = ","                           \* line 432
              THEN ScanThen(1)                              \* line 433
              ELSE CallAccept(")", 3)                       \* line 435
         [] OTHER -> Return

condition ==
    /\ Running("condition")
    /\ CASE Top.pc = 0 -> Call("expression", 1)             \* line 440
         [] OTHER -> Return

\* an expression that mixes the two operators: the loop entered on `and`
\* goes on at `or` as well
expressionMixed ==
    /\ Running("expression")
    /\ CASE Top.pc = 0 -> Call("relation", 1)
         [] Top.pc = 1 ->
              IF token.code = "and"
              THEN ScanThen(2)
              ELSE IF token.code = "or"
              THEN ScanThen(4)
              ELSE Return
         [] Top.pc = 2 -> Call("relation", 3)
         [] Top.pc = 3 ->
              IF token.code \in {"and", "or"}
              THEN ScanThen(2)
              ELSE Return
         [] Top.pc = 4 -> Call("relation", 5)
         [] OTHER ->
              IF token.code = "or"
              THEN ScanThen(4)
              ELSE Return

expression ==
    /\ Running("expression")
    /\ CASE Top.pc = 0 -> Call("relation", 1)               \* line 444
         [] Top.pc = 1 ->
              IF token.code = "and"                         \* lines 445, 446
              THEN ScanThen(2)                              \* line 447
              ELSE IF token.code = "or"                     \* lines 449, 450
              THEN ScanThen(4)                              \* line 451
              ELSE Return
         [] Top.pc = 2 -> Call("relation", 3)               \* line 448
         [] Top.pc = 3 ->
              IF token.code = "and"                         \* line 446
              THEN ScanThen(2)                              \* line 447
              ELSE Return
         [] Top.pc = 4 -> Call("relation", 5)               \* line 452
         [] OTHER ->
              IF token.code = "or"                          \* line 450
              THEN ScanThen(4)                              \* line 451
              ELSE Return

relation ==
    /\ Running("relation")
    /\ CASE Top.pc = 0 -> Call("simpleExpression", 1)       \* line 456
         [] Top.pc = 1 ->
              IF token.code \in relationalOperator          \* line 457
              THEN ScanThen(2)                              \* line 458
              ELSE Return
         [] Top.pc = 2 -> Call("simpleExpression", 3)       \* line 459
         [] OTHER -> Return

simpleExpression ==
    /\ Running("simpleExpression")
    /\ CASE Top.pc = 0 ->
              IF token.code \in addingOperator              \* line 463
              THEN ScanThen(1)                              \* line 464
              ELSE Call("term", 2)                          \* line 465
         [] Top.pc = 1 -> Call("term", 2)                   \* lines 465, 468
         [] OTHER ->
              IF token.code \in addingOperator              \* line 466
              THEN ScanThen(1)                              \* line 467
              ELSE Return

\* `self.token in Token.multiplyingOperator` (line 473) tests the Token
\* object, not its code, against the table of category strings: a Token is
\* equal to none of them
TokenObjectIn(t, codes) == FALSE

term ==
    /\ Running("term")
    /\ CASE Top.pc = 0 -> Call("factor", 1)                 \* lines 472, 475
         [] OTHER ->
              IF TokenObjectIn(token, multiplyingOperator)  \* line 473
              THEN ScanThen(0)                              \* line 474
              ELSE Return

\* a factor whose `not` prefix and `**` suffix are independent: after the
\* primary that follows `not` it goes on to the test of line 485
factorIndependent ==
    /\ Running("factor")
    /\ CASE Top.pc = 0 ->
              IF token.code = "not"
              THEN ScanThen(1)
              ELSE Call("primary", 2)
         [] Top.pc = 1 -> Call("primary", 2)
         [] Top.pc = 2 ->
              IF token.code = "**"
              THEN ScanThen(3)
              ELSE Return
         [] Top.pc = 3 -> Call("primary", 4)
         [] OTHER -> Return

factor ==
    /\ Running("factor")
    /\ CASE Top.pc = 0 ->
              IF token.code = "not"                         \* line 480
              THEN ScanThen(1)                              \* line 481
              ELSE Call("primary", 2)                       \* line 484
         [] Top.pc = 1 -> Call("primary", 4)                \* line 482
         [] Top.pc = 2 ->
              IF token.code = "**"                          \* line 485
              THEN ScanThen(3)                              \* line 486
              ELSE Return
         [] Top.pc = 3 -> Call("primary", 4)                \* line 487
         [] OTHER -> Return

primary ==
    /\ Running("primary")
    /\ CASE Top.pc = 0 ->
              IF token.code \in {"int", "string"}           \* line 491
              THEN ScanThenReturn                           \* line 492
              ELSE IF token.code = "id"
              THEN Call("name", 3)                          \* line 494
              ELSE IF token.code = "("
              THEN ScanThen(1)                              \* line 496
              ELSE CallFatalError(SyntaxDiag("primary", token.code), 3)  \* line 501
         [] Top.pc = 1 -> Call("expression", 2)             \* line 497
         [] Top.pc = 2 -> CallAccept(")", 3)                \* line 498
         [] OTHER -> Return

name ==
    /\ Running("name")
    /\ CASE Top.pc = 0 -> CallAccept("id", 1)               \* line 506
         [] Top.pc = 1 ->
              IF token.code = "("                           \* line 508
              THEN Call("indexedComponent", 2)              \* line 509
              ELSE Return
         [] OTHER -> Return

indexedComponent ==
    /\ Running("indexedComponent")
    /\ CASE Top.pc = 0 -> CallAccept("(", 1)                \* line 513
         [] Top.pc = 1 -> Call("expression", 2)             \* lines 515, 518
         [] Top.pc = 2 ->
              IF token.code = ","                           \* line 516
              THEN ScanThen(1)                              \* line 517
              ELSE CallAccept(")", 3)                       \* line 519
         [] OTHER -> Return

-----------------------------------------------------------------------------
(* A recognition session: Parser(chario, scanner) then parse()              *)

\* a text written as a string, as the sequence of its characters
Chars(str) == [i \in 1..Len(str) |-> SubSeq(str, i, i)]

\* one program that visits every rule of the grammar
FullProgram ==
    Chars("procedure Foo (a, b : in out integer; c : integer) is\n")
    \o Chars("type Color is (red, green);\n")
    \o Chars("type Vec is array (range 1 .. 10, Color) of integer;\n")
    \o Chars("N : constant := 10;\n")
    \o Chars("r : range 1 .. 5;\n")
    \o Chars("procedure Inner is begin null; end Inner;\n")
    \o Chars("begin\n")
    \o Chars("x := - a + (b ** 2) < 3 and not y and 1;\n")
    \o Chars("y := a or b or c;\n")
    \o Chars("if x < 1 then null; elsif x > 2 then exit; else foo(1, 2); end if;\n")
    \o Chars("while x < 10 loop x := v(1, 2) + 1; exit when x >= 5; end loop;\n")
    \o Chars("loop null; end loop;\n")
    \o Chars("foo(1)(2, 3);\n")
    \o Chars("end Foo;")

\* a well-formed program with a line break after is, begin, then, else,
\* loop and every semicolon
StructuredProgram ==
    Chars("procedure Foo is\n")
    \o Chars("type T is\n(a, b);\n")
    \o Chars("x : T;\n")
    \o Chars("begin\n")
    \o Chars("if x then\nnull;\nelse\nexit;\nend if;\n")
    \o Chars("while x loop\nx := (\n1);\nend loop;\n")
    \o Chars("loop\nnull;\nend loop;\n")
    \o Chars("end Foo;\n")

\* one assignment whose right-hand side is the text f
AssignmentProgram(f) == Chars("procedure Foo is begin x := " \o f \o "; end Foo;")

FactorTexts == {"a", "not a", "a ** b", "not a ** b"}

FactorPrograms == {AssignmentProgram(f) : f \in FactorTexts}

\* chains `a op a op a ...` of up to MaxOps operators and / or
Chains == UNION {[1..k -> {"and", "or"}] : k \in 1..MaxOps}

RECURSIVE ChainTail(_)
ChainTail(ops) ==
    IF ops = <<>> THEN "" ELSE " " \o Head(ops) \o " a" \o ChainTail(Tail(ops))

ChainPrograms == {AssignmentProgram("a" \o ChainTail(ops)) : ops \in Chains}

Programs ==
    { FullProgram, StructuredProgram,
      Chars("procedure Foo is begin null; end Foo;"),
      Chars("procedure Foo is begin exit; end Foo;"),
      Chars("procedure Foo is\nbegin\nnull;\nend Foo;\n"),
      Chars("procedure Foo is begin null;"),
      Chars("procedure Foo is X : ;\nbegin null; end Foo;"),
      Chars("procedure Foo\nis begin null; end Foo;"),
      Chars("procedure Foo is begin\nx := ;\ny := ;\nnull;\nend Foo;"),
      Chars("procedure Foo is begin x . ; null; end Foo;"),
      Chars("procedure 1 x . y"),
      Chars("procedure Foo is begin loop null . end loop; end Foo;"),
      Chars("procedure Foo is begin while . loop null; end . ; end Foo;"),
      Chars("procedure Foo is begin null\nexit; end Foo;"),
      Chars("procedure Foo is begin x := a * b; end Foo;"),
      Chars("procedure Foo is begin x := a mod 2 + b / c; end Foo;") }

\* generated programs: a fixed header, then up to MaxWords words
Header == Chars("procedure Foo is begin ")

Words == {"null;", "exit;", "end", "Foo", ";", "\n", "x", ":=", "."}

RECURSIVE Join(_)
Join(ws) == IF ws = <<>> THEN <<>> ELSE Chars(Head(ws)) \o <<" ">> \o Join(Tail(ws))

GeneratedPrograms == {Header \o Join(ws) : ws \in TextsOver(Words, MaxWords)}

\* well-formed bodies `procedure Foo is begin <statements> end [Foo] ;` of
\* null and exit statements, laid out on one line or one item per line
RECURSIVE JoinWith(_, _)
JoinWith(ws, sep) ==
    IF ws = <<>> THEN <<>> ELSE Chars(Head(ws)) \o <<sep>> \o JoinWith(Tail(ws), sep)

WellFormedPrograms ==
    { Chars("procedure Foo is") \o <<sep>> \o Chars("begin") \o <<sep>>
        \o JoinWith(stmts, sep) \o Chars(tail)
      : stmts \in UNION {[1..k -> {"null;", "exit;"}] : k \in 1..MaxStmts},
        sep \in {" ", "\n"},
        tail \in {"end Foo;", "end;", "end Foo ;\n"} }

\* a well-formed body followed by one to MaxTrail further words
BodyText == Chars("procedure Foo is begin null; end Foo;")

TrailingPrograms ==
    { BodyText \o <<" ">> \o Join(ws)
      : ws \in TextsOver(Words, MaxTrail) \ {<<>>} }

ParserInputs ==
    Programs \cup GeneratedPrograms \cup WellFormedPrograms \cup FactorPrograms
        \cup ChainPrograms \cup TrailingPrograms

\* Parser.__init__ (line 26) requests the first token; a text whose first
\* token makes the scanner raise constructs no Parser
Init ==
    /\ source \in ParserInputs
    /\ ~GetNextToken(source, 1).err
    /\ cursor = GetNextToken(source, 1).cursor
    /\ token = GetNextToken(source, 1).token
    /\ tokBegin = GetNextToken(source, 1).begin
    /\ stack = <<Frame("parse", NoArg)>>
    /\ exc = "none"
    /\ diag = <<>>

Next ==
    \/ parse
    \/ ignore_newlines
    \/ discard_tokens
    \/ accept
    \/ fatalError
    \/ subprogramBody
    \/ declarativePart
    \/ basicDeclaration
    \/ numberOrObjectDeclaration
    \/ objectDeclaration
    \/ numberDeclaration
    \/ identifierList
    \/ typeDeclaration
    \/ typeDefinition
    \/ range
    \/ index
    \/ enumerationTypeDefinition
    \/ arrayTypeDefinition
    \/ subprogramSpecification
    \/ formalPart
    \/ parameterSpecification
    \/ mode
    \/ sequenceOfStatements
    \/ statement
    \/ simpleStatement
    \/ nameStatement
    \/ compoundStatement
    \/ nullStatement
    \/ assignmentStatement
    \/ ifStatement
    \/ loopStatement
    \/ iterationScheme
    \/ exitStatement
    \/ procedureCallStatement
    \/ actualParameterPart
    \/ condition
    \/ expression
    \/ relation
    \/ simpleExpression
    \/ term
    \/ factor
    \/ primary
    \/ name
    \/ indexedComponent
    \/ Propagate

Spec == Init /\ [][Next]_vars

\* the session runs on one thread and is never suspended: a step that is
\* possible is eventually taken
FairSpec == Spec /\ WF_vars(Next)

-----------------------------------------------------------------------------
(* Properties                                                               *)

\* the characters the specification lets GetNextToken skip
Blank == {" ", "\t", "\r", "\\"}

\* the token that begins at b is the first token of its line
FirstOfLine(b) ==
    \A k \in 1..(b - 1) :
        \/ source[k] \in Blank \cup {"\n"}
        \/ \E j \in (k + 1)..(b - 1) : source[j] = "\n"

\* a line break, followed by blanks only, precedes the token that begins at b
LineBreakBefore(b) ==
    \E k \in 1..(b - 1) :
        /\ source[k] = "\n"
        /\ \A j \in (k + 1)..(b - 1) : source[j] \in Blank

InStack(f) == \E i \in 1..Len(stack) : stack[i].fn = f

Count(kind) == Cardinality({i \in 1..Len(diag) : diag[i].kind = kind})

\* C1: for every finite input parse() terminates; in particular when end of
\* input comes before the `end` of the body
C1_ParseTerminates == <>(stack = <<>>)

\* C2: after fatalError has sent its diagnostic, phrase-level discard runs
\* to completion (while it runs, a step that changes the state is always
\* possible, also at end of input), and when the failure leaves fatalError
\* the lookahead is end-of-input or the first token of a line, and is not a
\* newline token
C2_FailureLeavesAtLineStart ==
    /\ InStack("discard_tokens") => ENABLED <<Next>>_vars
    /\ (stack # <<>> /\ exc = "RuntimeError" /\ Top.fn = "fatalError")
          => /\ diag # <<>>
             /\ token.code # NEWLINE
             /\ token.code = "EOF" \/ FirstOfLine(tokBegin)

\* the first character at or after p that is none of space, tab,
\* carriage-return and backslash
RECURSIVE NextSignificant(_, _)
NextSignificant(s, p) ==
    IF p <= Len(s) /\ s[p] \in Blank THEN NextSignificant(s, p + 1) ELSE PeekNextChar(s, p)

\* C3: GetNextToken never skips a newline character: when the next
\* character that is not a space, tab, carriage-return or backslash is a
\* newline, the token returned has category newline
C3_NewlineIsToken ==
    [][NextSignificant(source, cursor) = "\n" => token'.code = NEWLINE]_vars

\* C4: a lexical error is reported once and aborts the session: once it is
\* reported the exception is never caught, so it is still unwinding in every
\* later state
C4_LexicalErrorAborts ==
    Count("lexical") >= 1 => (Count("lexical") = 1 /\ exc = "RuntimeError")

MalformedDeclaration == Chars("procedure Foo is X : ;\nbegin null; end Foo;")

\* C5: on `procedure Foo is X : ;` / `begin null; end Foo;` one diagnostic is
\* reported, discard stops at the end of the first line (its loop never
\* tests a token of the second line), and the session ends at end of input
\* with that one diagnostic
C5_PhaseLevelRecovery ==
    source = MalformedDeclaration
        => /\ Len(diag) <= 1
           /\ (Running("discard_tokens") /\ Top.pc = 1)
                => ~LineBreakBefore(tokBegin)
           /\ stack = <<>> => (Count("syntax") = 1 /\ token.code = "EOF")

\* C6: a well-formed body of null and exit statements is accepted with no
\* diagnostic, fatalError is never called, and parse() returns with the
\* lookahead at end of input
C6_WellFormedAccepted ==
    /\ [](source \in WellFormedPrograms
            => (diag = <<>> /\ exc = "none" /\ ~InStack("fatalError")))
    /\ (source \in WellFormedPrograms) ~> (stack = <<>> /\ token.code = "EOF")

C6_Witness ==
    /\ source \in { Chars("procedure Foo is begin null; end Foo;"),
                    Chars("procedure Foo is begin exit; end Foo;") }
    /\ stack = <<>>
    /\ token.code = "EOF"
    /\ diag = <<>>

\* C7: accept of a line-terminating category never skips a line break to
\* match: the `is` that subprogramBody expects after the specification is
\* not matched when a line break separates it from the header
C7_AcceptFailsAtNewline ==
    ( /\ Running("accept")
      /\ Top.pc = 2
      /\ Top.arg.expected = "is"
      /\ Len(stack) >= 2
      /\ stack[Len(stack) - 1].fn = "subprogramBody"
      /\ LineBreakBefore(tokBegin) )
        => token.code # "is"

TwoBadStatements == Chars("procedure Foo is begin\nx := ;\ny := ;\nnull;\nend Foo;")

\* C8: a syntax error inside statement() does not end the session: when two
\* statements on different lines each contain an error, both are reported
\* by the time the input is exhausted, and no exception is unwinding then
C8_EveryStatementErrorReported ==
    (source = TwoBadStatements /\ token.code = "EOF")
        => (Count("syntax") = 2 /\ exc = "none")

\* C9: AlphabeticToken returns the text from the first letter up to
\* (excluding) the first delimiter as one token and leaves the cursor on the
\* delimiter; the token is a reserved word exactly when that text is a
\* reserved spelling, otherwise an identifier carrying the text
C9_MaximalMunch ==
    (exc = "none" /\ tokBegin \in 1..Len(source) /\ isalpha(source[tokBegin]))
        => /\ cursor > tokBegin
           /\ PeekNextChar(source, cursor) \in delimiters
           /\ \A k \in tokBegin..(cursor - 1) : source[k] \notin delimiters
           /\ IF Text(source, tokBegin, cursor) \in reservedWords
              THEN token = Token(Text(source, tokBegin, cursor), None)
              ELSE token = Token("id", Text(source, tokBegin, cursor))

C9_Witness ==
    /\ source = <<"b","e","g","i","n","x"," ">>
    /\ token = Token("id", "beginx")
    /\ cursor = 7

\* C10: for a first character in / : > < *, OperatorToken returns the
\* two-character token and consumes two characters exactly when the pair is
\* one of /= := <= >= **; otherwise the one-character token, consuming one
C10_DoubleCharOperators ==
    (exc = "none" /\ tokBegin \in 1..Len(source)
        /\ source[tokBegin] \in {"/", ":", ">", "<", "*"})
        => LET first == source[tokBegin]
               pair  == IF tokBegin < Len(source)
                        THEN <<first, source[tokBegin + 1]>>
                        ELSE <<first>>
           IN  IF pair \in {<<"/","=">>, <<":","=">>, <<"<","=">>, <<">","=">>, <<"*","*">>}
               THEN token = Token(pair[1] \o pair[2], None) /\ cursor = tokBegin + 2
               ELSE token = Token(first, None) /\ cursor = tokBegin + 1

C10_Witness ==
    \/ source = <<"*","*">> /\ token.code = "**" /\ cursor = 3
    \/ source = <<":","=">> /\ token.code = ":=" /\ cursor = 3

\* C11: IntegerToken returns an int token whose lexeme is exactly the
\* maximal non-empty run of digits that starts the token; it consumes those
\* digits and nothing else, so the cursor is left on the first character that
\* is not a digit (or at end of input)
C11_IntegerLexeme ==
    (exc = "none" /\ tokBegin \in 1..Len(source) /\ isdigit(source[tokBegin]))
        => /\ token = Token("int", Text(source, tokBegin, cursor))
           /\ cursor > tokBegin
           /\ \A k \in tokBegin..(cursor - 1) : isdigit(source[k])
           /\ ~isdigit(PeekNextChar(source, cursor))

C11_Witness ==
    \/ /\ source = <<"1","2","3","4","x">>
       /\ token = Token("int", "1234")
       /\ cursor = 5
    \/ /\ source = <<"1","2","3","4","5">>
       /\ token = Token("int", "12345")
       /\ cursor = 6

\* C12: when accept fails for a line-terminating category at the end of a
\* line (a line break separates the lookahead from the token before it, so
\* the lookahead is the first token of the following line), recovery does
\* not discard that lookahead: the first step of discard_tokens leaves it in
\* place
C12_NextLineKept ==
    [][ ( /\ Running("discard_tokens")
          /\ Top.pc = 0
          /\ Len(stack) >= 3
          /\ stack[Len(stack) - 2].fn = "accept"
          /\ stack[Len(stack) - 2].arg.expected \in line_terminating_tokens
          /\ LineBreakBefore(tokBegin) )
        => (token' = token /\ tokBegin' = tokBegin) ]_vars

MultiplyProgram == Chars("procedure Foo is begin x := a * b; end Foo;")

\* C13: term() consumes the multiplying operators between its factors: when
\* term() has returned to simpleExpression the lookahead is not a multiplying
\* operator, and `x := a * b;` is parsed without a diagnostic
C13_TermConsumesMultiplying ==
    /\ (Running("simpleExpression") /\ Top.pc = 2)
          => token.code \notin multiplyingOperator
    /\ source = MultiplyProgram => diag = <<>>

MultiLinePrograms ==
    { StructuredProgram, Chars("procedure Foo is\nbegin\nnull;\nend Foo;\n") }
        \cup {p \in WellFormedPrograms : \E k \in 1..Len(p) : p[k] = "\n"}

\* a rule is about to choose a branch by the category of the lookahead
AtDispatch ==
    /\ stack # <<>>
    /\ exc = "none"
    /\ \/ /\ Top.fn \in {"statement", "simpleStatement", "compoundStatement",
                         "typeDefinition", "primary"}
          /\ Top.pc = 0
       \/ /\ Top.fn = "sequenceOfStatements"
          /\ Top.pc >= 1

\* C14: whenever statement, simpleStatement, compoundStatement, the loop test
\* of sequenceOfStatements, typeDefinition or primary dispatches on the
\* lookahead, the lookahead is not a newline token; a well-formed program
\* with line breaks after is, begin, then, else, loop and `;` is parsed with
\* no diagnostic and parse() returns at end of input
C14_NoNewlineAtDispatch ==
    /\ AtDispatch => token.code # NEWLINE
    /\ source \in MultiLinePrograms
          => /\ diag = <<>>
             /\ exc = "none"
             /\ ~InStack("fatalError")
             /\ stack = <<>> => token.code = "EOF"

C14_Witness ==
    /\ source = StructuredProgram
    /\ AtDispatch
    /\ Top.fn = "statement"
    /\ LineBreakBefore(tokBegin)
    /\ token.code = "exit"
    /\ diag = <<>>

\* the characters that start a punctuation or operator token
OperatorStart == {"+", "-", "*", "/", "(", ")", ",", ";", ":", "<", ">", "=", "."}

\* C15: AlphabeticToken stops at every character that starts an operator,
\* the dot included: no such character lies inside a letter-led token, and
\* `lo..hi` is scanned as identifier lo, `..`, identifier hi
C15_StopsAtOperatorStart ==
    /\ (exc = "none" /\ tokBegin \in 1..Len(source) /\ isalpha(source[tokBegin]))
          => \A k \in tokBegin..(cursor - 1) : source[k] \notin OperatorStart
    /\ (source = <<"l","o",".",".","h","i">> /\ exc = "none")
          => token \in { NoToken, Token("id", "lo"), Token("..", None),
                         Token("id", "hi"), Token("EOF", None) }

\* the punctuation and operator symbols of the language
PunctuationSymbols == {"+", "-", "*", "/", "(", ")", ",", ";", ":", "<", ">", "="}

\* C16: every punctuation and operator symbol is scanned as a token: none of
\* them is reported as a lexical error, and a standalone `=` gives one token
\* of category `=` and consumes that one character
C16_EverySymbolIsAToken ==
    /\ \A i \in 1..Len(diag) :
          diag[i].kind = "lexical" => diag[i].found \notin PunctuationSymbols
    /\ (exc = "none" /\ tokBegin \in 1..Len(source) /\ source[tokBegin] = "=")
          => (token = Token("=", None) /\ cursor = tokBegin + 1)

\* factor() has just returned to term()
FactorReturned == Running("term") /\ Top.pc = 1

\* C17 as stated: `not a ** b` is consumed entirely by one factor() call, so
\* that after it the lookahead is the token that follows `b`
C17_NotPowerConsumed ==
    (FactorReturned /\ source = AssignmentProgram("not a ** b"))
        => token.code = ";"

\* C17: factor() recognizes `"not" primary | primary ["**" primary]`: one
\* call consumes all of `a`, `not a` and `a ** b`, but on `not a ** b` it
\* returns after `not a` with `**` as the lookahead; no diagnostic has been
\* reported by then
C17_FactorAlternatives ==
    \A f \in FactorTexts :
        (FactorReturned /\ source = AssignmentProgram(f))
            => /\ token.code = (IF f = "not a ** b" THEN "**" ELSE ";")
               /\ diag = <<>>

C17_Witness ==
    /\ FactorReturned
    /\ source = AssignmentProgram("not a ** b")
    /\ token.code = "**"

\* C18: the cursor never moves past the end of the input; when GetNextToken
\* has returned the end-of-input token the cursor is at end of input (all
\* trailing ignored characters consumed, the sentinel not), and the next
\* call returns end-of-input again and leaves the cursor where it is
C18_EndOfInput ==
    /\ cursor <= Len(source) + 1
    /\ token.code = "EOF"
          => /\ exc = "none"
             /\ cursor = Len(source) + 1
             /\ tokBegin = cursor
             /\ GetNextToken(source, cursor)
                   = ScanResult(Token("EOF", None), cursor, cursor)

C18_Witness ==
    /\ source = <<"x"," "," ","\t"," ","\n">>
    /\ token = Token("EOF", None)
    /\ cursor = 7

\* the index of the first operator of a chain that differs from the first
\* one, 0 when there is none
FirstOther(ops) ==
    IF \A k \in 1..Len(ops) : ops[k] = ops[1]
    THEN 0
    ELSE CHOOSE k \in 1..Len(ops) :
            /\ ops[k] # ops[1]
            /\ \A j \in 1..(k - 1) : ops[j] = ops[1]

\* expression() has just returned to assignmentStatement()
ExpressionReturned == Running("assignmentStatement") /\ Top.pc = 2

\* C19: on a chain of and / or, expression() consumes the relations joined by
\* the kind of operator that comes first and returns with the lookahead at
\* the first operator of the other kind, which starts right after the part
\* consumed; on an unmixed chain it returns at the `;`
C19_NoMixedChain ==
    \A ops \in Chains :
        (ExpressionReturned /\ source = AssignmentProgram("a" \o ChainTail(ops)))
            => LET k == FirstOther(ops)
               IN  /\ diag = <<>>
                   /\ IF k = 0
                      THEN token.code = ";"
                      ELSE /\ token.code = ops[k]
                           /\ tokBegin =
                                Len("procedure Foo is begin x := a"
                                      \o ChainTail(SubSeq(ops, 1, k - 1))) + 2

C19_Witness ==
    /\ ExpressionReturned
    /\ source = AssignmentProgram("a and a or a")
    /\ token.code = "or"
    /\ Text(source, cursor, Len(source) + 1) = " a; end Foo;"

====
